---- MODULE Spec2Model ----
(***************************************************************************)
(* Kart Mania multiplayer network tools: the simulated DS player           *)
(* (tools/network/simulate_ds_player.py), the packet tester                *)
(* (tools/network/test_multiplayer.py) and the packet size verifier        *)
(* (tools/network/verify_packet_size.py).                                  *)
(*                                                                         *)
(* Conventions.                                                            *)
(*  - bytes objects are sequences of integers 0..255.                      *)
(*  - Python ints that can pass 2^31 (the sequence counters) are held as   *)
(*    two base-65536 digits [hi, lo], value hi * 65536 + lo; hi is not     *)
(*    bounded by 65535 because a Python int is not bounded by 2^32.        *)
(*  - floats are held as integers counting units of 1/1024.                *)
(*  - time.time() is a mocked clock `now` counting units of 1/300 s, the   *)
(*    largest unit in which 1.0, 0.1, 0.05, 0.01 and 1.0/15.0 are whole.   *)
(***************************************************************************)
EXTENDS Integers, Sequences, FiniteSets

VARIABLES
    prog,               \* which script runs: its file name without .py
    pc,                 \* position of the script
    exc,                \* exception propagating out of the current frame
    args,               \* argparse result: [player_id, race, test]
    player_id,          \* self.player_id
    sequence_number,    \* self.sequence_number, [hi, lo]
    is_ready,           \* self.is_ready
    in_race,            \* self.in_race
    running,            \* self.running
    pos_x, pos_y,       \* self.pos_x, self.pos_y   (1/1024)
    speed,              \* self.speed               (1/1024)
    angle,              \* self.angle
    lap,                \* self.lap
    item,               \* self.item
    sock,               \* "none" | "open" | "closed"
    packets_sent,       \* self.packets_sent
    packets_received,   \* self.packets_received
    last_heartbeat,     \* self.last_heartbeat
    last_status_print,  \* run_lobby_mode local
    last_car_update,    \* run_race_mode local
    now,                \* time.time()
    wire,               \* the last datagram handed to the network by sendto
    lost,               \* packets built since `wire` whose sendto raised
    inputs,             \* keys, datagrams and interrupts delivered so far
    step,               \* test_multiplayer / verify_packet_size: next call of the script
    start_time,         \* listen_for_packets local
    packet_count,       \* listen_for_packets local
    packets_to_test,    \* verify_packet_size: the packets of the list, in order
    all_pass,           \* verify_packet_size
    ev                  \* what the last step did: key read, packet built, datagram read, line printed

vars == <<prog, pc, exc, args, player_id, sequence_number, is_ready, in_race,
          running, pos_x, pos_y, speed, angle, lap, item, sock, packets_sent,
          packets_received, last_heartbeat, last_status_print, last_car_update,
          now, wire, lost, inputs, step, start_time, packet_count,
          packets_to_test, all_pass, ev>>

-----------------------------------------------------------------------------
(* Bounds of the model *)

\* a session builds packets while fewer than MaxSeq sequence numbers are used
MaxSeq == 4
\* the loops run while the mocked clock is below MaxTime
MaxTime == 330
\* the environment acts at most MaxInputs times: a key, a datagram, a Ctrl+C
MaxInputs == 3
\* a session picked up long into its life is followed while the mocked clock
\* is below MaxLongTime, ten seconds
MaxLongTime == 3000

-----------------------------------------------------------------------------
(* Protocol constants *)

PROTOCOL_VERSION == 1
MAX_MULTIPLAYER_PLAYERS == 8

MSG_LOBBY_JOIN == 0
MSG_LOBBY_UPDATE == 1
MSG_READY == 2
MSG_CAR_UPDATE == 3
MSG_ITEM_PLACED == 4
MSG_ITEM_BOX_PICKUP == 5
MSG_DISCONNECT == 6

ITEM_NONE == 0
ITEM_BANANA == 1
ITEM_GREEN_SHELL == 2
ITEM_RED_SHELL == 3
ITEM_BOOST == 4

MessageTypeName(t) ==
    CASE t = MSG_LOBBY_JOIN -> "MSG_LOBBY_JOIN"
      [] t = MSG_LOBBY_UPDATE -> "MSG_LOBBY_UPDATE"
      [] t = MSG_READY -> "MSG_READY"
      [] t = MSG_CAR_UPDATE -> "MSG_CAR_UPDATE"
      [] t = MSG_ITEM_PLACED -> "MSG_ITEM_PLACED"
      [] t = MSG_ITEM_BOX_PICKUP -> "MSG_ITEM_BOX_PICKUP"
      [] t = MSG_DISCONNECT -> "MSG_DISCONNECT"

-----------------------------------------------------------------------------
(* struct.pack / struct.unpack, little-endian standard sizes *)

\* pad bytes left as 0xff
Zeros_left_set(n) == [i \in 1..n |-> 255]
Zeros(n) == [i \in 1..n |-> 0]

\* a Python int as two base-65536 digits
Big(hi, lo) == [hi |-> hi, lo |-> lo]
Plus1(s) == IF s.lo = 65535 THEN Big(s.hi + 1, 0) ELSE Big(s.hi, s.lo + 1)
Less(a, b) == a.hi < b.hi \/ (a.hi = b.hi /\ a.lo < b.lo)

\* struct format 'B': 0 <= v <= 255
FitsB(v) == v >= 0 /\ v <= 255
\* struct format 'I': 0 <= v <= 2^32 - 1
FitsI(s) == s.hi >= 0 /\ s.hi <= 65535
\* struct format 'i': -2^31 <= v <= 2^31 - 1 (every TLC integer fits)
\* the counter packed most significant byte first
PackI_big_endian(s) == <<s.hi \div 256, s.hi % 256, s.lo \div 256, s.lo % 256>>
PackI(s) == <<s.lo % 256, s.lo \div 256, s.hi % 256, s.hi \div 256>>
UnpackI(b) == Big(b[3] + 256 * b[4], b[1] + 256 * b[2])
Pack_i(v) ==
    LET u == IF v >= 0 THEN v ELSE (v + 2147483647) + 1
    IN  <<u % 256, (u \div 256) % 256, (u \div 65536) % 256,
          (u \div 16777216) + (IF v < 0 THEN 128 ELSE 0)>>
Unpack_i(b) ==
    LET low == b[1] + 256 * b[2] + 65536 * b[3]
    IN  IF b[4] < 128 THEN low + 16777216 * b[4]
        ELSE (low + 16777216 * (b[4] - 128) - 2147483647) - 1

\* struct.pack('<BBBBI', version, msg_type, player_id, padding, seq)
CanPackHeader(version, msg_type, pid, padding, seq) ==
    FitsB(version) /\ FitsB(msg_type) /\ FitsB(pid) /\ FitsB(padding) /\ FitsI(seq)
PackHeader(version, msg_type, pid, padding, seq) ==
    <<version, msg_type, pid, padding>> \o PackI(seq)
\* struct.unpack('<BBBBI', data[:8])
UnpackHeader(data) ==
    [version |-> data[1], msg_type |-> data[2], player_id |-> data[3],
     padding |-> data[4], seq_num |-> UnpackI(SubSeq(data, 5, 8))]

\* the lobby payload with one pad byte too few
PackLobby_22x(ready) == <<IF ready THEN 1 ELSE 0>> \o Zeros(22)
\* struct.pack('<B23x', int(is_ready))
PackLobby(ready) == <<IF ready THEN 1 ELSE 0>> \o Zeros(23)
\* the car payload with the angle written before the speed
PackCar_angle_before_speed(a, b, c, d, e, f) ==
    Pack_i(a) \o Pack_i(b) \o Pack_i(d) \o Pack_i(c) \o Pack_i(e) \o Pack_i(f)
\* struct.pack('<iiiiii', a, b, c, d, e, f)
PackCar(a, b, c, d, e, f) ==
    Pack_i(a) \o Pack_i(b) \o Pack_i(c) \o Pack_i(d) \o Pack_i(e) \o Pack_i(f)
\* struct.pack('<iiiii4x', a, b, c, d, e)
PackItem(a, b, c, d, e) ==
    Pack_i(a) \o Pack_i(b) \o Pack_i(c) \o Pack_i(d) \o Pack_i(e) \o Zeros(4)
\* struct.pack('<i20x', box_index)
PackBox(box_index) == Pack_i(box_index) \o Zeros(20)
\* b'\x00' * 24
PackDisconnect == Zeros(24)

\* int(x * 256) for a float x held in units of 1/1024: truncation toward zero
ToQ16_8(x) == IF x >= 0 THEN x \div 4 ELSE -((-x) \div 4)
\* a float literal n.0 in units of 1/1024
Float(n) == n * 1024

-----------------------------------------------------------------------------
(* math.sin / math.cos of (angle / 512.0) * 2 * pi, in units of 1/1024 *)

SinQuarter ==
    <<
       0, 13, 25, 38, 50, 63, 75, 88, 100, 113, 125, 138, 150,
       163, 175, 187, 200, 212, 224, 237, 249, 261, 273, 285, 297, 309,
       321, 333, 345, 357, 369, 380, 392, 403, 415, 426, 438, 449, 460,
       472, 483, 494, 505, 516, 526, 537, 548, 558, 569, 579, 590, 600,
       610, 620, 630, 640, 650, 659, 669, 678, 688, 697, 706, 715, 724,
       733, 742, 750, 759, 767, 775, 784, 792, 799, 807, 815, 822, 830,
       837, 844, 851, 858, 865, 872, 878, 885, 891, 897, 903, 909, 915,
       920, 926, 931, 936, 941, 946, 951, 955, 960, 964, 968, 972, 976,
       980, 983, 987, 990, 993, 996, 999, 1002, 1004, 1007, 1009, 1011, 1013,
       1015, 1016, 1018, 1019, 1020, 1021, 1022, 1023, 1023, 1024, 1024, 1024
    >>
Sin512(a) ==
    IF a <= 128 THEN SinQuarter[a + 1]
    ELSE IF a <= 256 THEN SinQuarter[256 - a + 1]
    ELSE IF a <= 384 THEN -SinQuarter[a - 256 + 1]
    ELSE -SinQuarter[512 - a + 1]
Cos512(a) == Sin512((a + 128) % 512)
\* product of two floats in units of 1/1024
FMul(x, y) == LET p == x * y IN IF p >= 0 THEN p \div 1024 ELSE -((-p) \div 1024)
Max(a, b) == IF a >= b THEN a ELSE b
Min(a, b) == IF a <= b THEN a ELSE b

-----------------------------------------------------------------------------
(* The environment: command lines, keys, datagrams, clock *)

\* --player-id values tried, inside and outside 0..MAX_MULTIPLAYER_PLAYERS-1
ArgPlayerIds == {-1, 0, 7, 8}
\* keys the terminal can deliver
Keys == {" ", "\n", "r", "Q", "b", "G", "l", "x"}
\* str.lower()
Lower(k) ==
    CASE k = "R" -> "r" [] k = "Q" -> "q" [] k = "B" -> "b"
      [] k = "G" -> "g" [] k = "L" -> "l" [] OTHER -> k

\* the mocked clock counts units of 1/300 s
\* 1.0 (heartbeat), 5.0 (status line), 0.05 and 0.01 (time.sleep),
\* 0.1 (settimeout), 1.0 / 15.0 (update_rate)
HEARTBEAT_PERIOD == 300
STATUS_PERIOD == 1500
LOBBY_SLEEP == 15
RACE_SLEEP == 3
RECV_TIMEOUT == 30
update_rate == 20

\* a participant that is not the local one
OtherId == (player_id + 1) % MAX_MULTIPLAYER_PLAYERS
\* datagrams other hosts can put on the port: well formed ones of other
\* participants, of the local id (broadcast echo), of an unknown type, of
\* another protocol version, a bare header, 40 bytes with every header
\* byte at the far end of its range, and ones shorter than a header
Foreign ==
    LET dg(version, t, pid, payload) ==
            PackHeader(version, t, pid, 0, Big(0, 9)) \o payload
    IN  { dg(PROTOCOL_VERSION, MSG_LOBBY_JOIN, OtherId, PackLobby(FALSE)),
          dg(PROTOCOL_VERSION, MSG_READY, OtherId, PackLobby(TRUE)),
          dg(PROTOCOL_VERSION, MSG_CAR_UPDATE, OtherId,
             PackCar(25600, 51200, 1280, 256, 1, 0)),
          dg(PROTOCOL_VERSION, MSG_DISCONNECT, OtherId, PackDisconnect),
          dg(PROTOCOL_VERSION, MSG_READY, player_id, PackLobby(TRUE)),
          dg(PROTOCOL_VERSION, 7, OtherId, Zeros(24)),
          dg(2, MSG_LOBBY_JOIN, OtherId, PackLobby(FALSE)),
          PackHeader(PROTOCOL_VERSION, MSG_LOBBY_UPDATE, OtherId, 0, Big(65535, 65535)),
          PackHeader(0, 255, 255, 255, Big(65535, 65535)) \o Zeros(32),
          <<PROTOCOL_VERSION, MSG_READY, OtherId, 0, 1>>,
          <<>> }
\* what recvfrom can return: a foreign datagram or the echo of the last one sent
Inbound == Foreign \cup (IF wire = <<>> THEN {} ELSE {wire})

\* the record of a step
Quiet(op) ==
    [op |-> op, key |-> "", built |-> <<>>, sent |-> FALSE,
     rx |-> "none", data |-> <<>>, tag |-> "", shown |-> FALSE]

-----------------------------------------------------------------------------
(* SimulatedDSPlayer *)

\* build_packet without its increment
build_packet_keeps_counter(msg_type, payload) ==
    [packet |-> PackHeader(PROTOCOL_VERSION, msg_type, player_id, 0, sequence_number)
                    \o payload,
     sequence_number |-> sequence_number]
\* build_packet incrementing before it packs the header
build_packet_carries_next(msg_type, payload) ==
    [packet |-> PackHeader(PROTOCOL_VERSION, msg_type, player_id, 0,
                           Plus1(sequence_number)) \o payload,
     sequence_number |-> Plus1(sequence_number)]
\* build_packet: the packet and the counter after it
build_packet(msg_type, payload) ==
    [packet |-> PackHeader(PROTOCOL_VERSION, msg_type, player_id, 0, sequence_number)
                    \o payload,
     sequence_number |-> Plus1(sequence_number)]

\* Send counting the packet before sendto has returned
Send_counts_attempts(msg_type, payload, ok, caught) ==
    LET fits == CanPackHeader(PROTOCOL_VERSION, msg_type, player_id, 0, sequence_number)
        b == build_packet(msg_type, payload)
    IN  [raised |-> IF ~fits THEN "struct.error"
                    ELSE IF ~ok /\ ~caught THEN "OSError" ELSE "none",
         built |-> IF fits THEN b.packet ELSE <<>>,
         sent |-> fits /\ ok,
         sequence_number |-> IF fits THEN b.sequence_number ELSE sequence_number,
         packets_sent |-> IF fits THEN packets_sent + 1 ELSE packets_sent,
         wire |-> IF fits /\ ok THEN b.packet ELSE wire,
         lost |-> IF fits /\ ok THEN 0 ELSE IF fits THEN lost + 1 ELSE lost]
\* build_packet followed by sock.sendto and the bookkeeping after it;
\* ok = sendto returned, ~ok = sendto raised OSError;
\* caught = the send_* method wraps sendto in try/except OSError
Send(msg_type, payload, ok, caught) ==
    LET fits == CanPackHeader(PROTOCOL_VERSION, msg_type, player_id, 0, sequence_number)
        b == build_packet(msg_type, payload)
    IN  [raised |-> IF ~fits THEN "struct.error"
                    ELSE IF ~ok /\ ~caught THEN "OSError" ELSE "none",
         built |-> IF fits THEN b.packet ELSE <<>>,
         sent |-> fits /\ ok,
         sequence_number |-> IF fits THEN b.sequence_number ELSE sequence_number,
         packets_sent |-> IF fits /\ ok THEN packets_sent + 1 ELSE packets_sent,
         wire |-> IF fits /\ ok THEN b.packet ELSE wire,
         lost |-> IF fits /\ ok THEN 0 ELSE IF fits THEN lost + 1 ELSE lost]

send_lobby_join(ready, ok) == Send(MSG_LOBBY_JOIN, PackLobby(ready), ok, FALSE)
send_lobby_update(ready, ok) == Send(MSG_LOBBY_UPDATE, PackLobby(ready), ok, TRUE)
send_ready(ready, ok) == Send(MSG_READY, PackLobby(ready), ok, FALSE)
send_car_update(x, y, v, a, ok) ==
    Send(MSG_CAR_UPDATE,
         PackCar(ToQ16_8(x), ToQ16_8(y), ToQ16_8(v), a, lap, item), ok, FALSE)
\* send_item_placed sending a banana whatever the item
send_item_placed_always_banana(item_type, ok) ==
    Send(MSG_ITEM_PLACED,
         PackItem(ITEM_BANANA, ToQ16_8(pos_x), ToQ16_8(pos_y), angle,
                  ToQ16_8(Float(10))), ok, FALSE)
send_item_placed(item_type, ok) ==
    Send(MSG_ITEM_PLACED,
         PackItem(item_type, ToQ16_8(pos_x), ToQ16_8(pos_y), angle,
                  ToQ16_8(Float(10))), ok, FALSE)
send_disconnect(ok) == Send(MSG_DISCONNECT, PackDisconnect, ok, TRUE)

\* the assignments a Send result stands for
Sent(r) ==
    /\ sequence_number' = r.sequence_number
    /\ packets_sent' = r.packets_sent
    /\ wire' = r.wire
    /\ lost' = r.lost
NothingSent == UNCHANGED <<sequence_number, packets_sent, wire, lost>>

\* update_car_physics without the two lines that keep the car in bounds
update_car_physics_unbounded ==
    LET a == (angle + 5) % 512
        v == Float(5)
        x == pos_x + FMul(Cos512(a), v)
        y == pos_y + FMul(Sin512(a), v)
    IN  [angle |-> a, speed |-> v, pos_x |-> x, pos_y |-> y]
\* update_car_physics: the car after one step
update_car_physics ==
    LET a == (angle + 5) % 512
        v == Float(5)
        x == pos_x + FMul(Cos512(a), v)
        y == pos_y + FMul(Sin512(a), v)
    IN  [angle |-> a, speed |-> v,
         pos_x |-> Max(Float(50), Min(Float(950), x)),
         pos_y |-> Max(Float(50), Min(Float(950), y))]

\* receive_packets counting the datagram before it looks at the sender
receive_packets_counts_all(data) ==
    LET h == UnpackHeader(data)
    IN  IF Len(data) >= 8
        THEN IF h.player_id = player_id
             THEN [packets_received |-> packets_received + 1, tag |-> "", shown |-> FALSE]
             ELSE [packets_received |-> packets_received + 1,
                   tag |-> IF h.msg_type < 7 THEN MessageTypeName(h.msg_type)
                           ELSE "UNKNOWN",
                   shown |-> h.msg_type \in {MSG_LOBBY_JOIN, MSG_READY, MSG_DISCONNECT}]
        ELSE [packets_received |-> packets_received, tag |-> "", shown |-> FALSE]
\* receive_packets with no name for a message type it does not know
receive_packets_names_known_only(data) ==
    LET h == UnpackHeader(data)
        ignored == [packets_received |-> packets_received, tag |-> "", shown |-> FALSE]
    IN  IF Len(data) >= 8
        THEN IF h.player_id = player_id \/ h.msg_type >= 7
             THEN ignored
             ELSE [packets_received |-> packets_received + 1,
                   tag |-> MessageTypeName(h.msg_type),
                   shown |-> h.msg_type \in {MSG_LOBBY_JOIN, MSG_READY, MSG_DISCONNECT}]
        ELSE ignored
\* receive_packets on a datagram: the counter after it, the name computed
\* for the message type and whether a line is printed
receive_packets(data) ==
    LET h == UnpackHeader(data)
        ignored == [packets_received |-> packets_received, tag |-> "", shown |-> FALSE]
    IN  IF Len(data) >= 8
        THEN IF h.player_id = player_id
             THEN ignored
             ELSE [packets_received |-> packets_received + 1,
                   tag |-> IF h.msg_type < 7 THEN MessageTypeName(h.msg_type)
                           ELSE "UNKNOWN",
                   shown |-> h.msg_type \in {MSG_LOBBY_JOIN, MSG_READY, MSG_DISCONNECT}]
        ELSE ignored

\* the variables of the other scripts, while they do not run
ToolsIdle ==
    /\ step = 0 /\ start_time = 0 /\ packet_count = 0
    /\ packets_to_test = <<>> /\ all_pass = TRUE
PlayerIdle ==
    /\ is_ready = FALSE /\ in_race = FALSE /\ running = FALSE
    /\ pos_x = 0 /\ pos_y = 0 /\ speed = 0 /\ angle = 0 /\ lap = 0
    /\ item = ITEM_NONE
    /\ packets_sent = 0 /\ packets_received = 0 /\ last_heartbeat = 0
    /\ last_status_print = 0 /\ last_car_update = 0

\* SimulatedDSPlayer.__init__(player_id, ...)
Constructed(pid) ==
    /\ player_id = pid
    /\ sequence_number = Big(0, 0)
    /\ is_ready = FALSE
    /\ in_race = FALSE
    /\ running = TRUE
    /\ pos_x = Float(100) + pid * Float(20)
    /\ pos_y = Float(100) + pid * Float(20)
    /\ speed = Float(0)
    /\ angle = 0
    /\ lap = 1
    /\ item = ITEM_NONE
    /\ sock = "open"
    /\ packets_sent = 0
    /\ packets_received = 0
    /\ last_heartbeat = now

-----------------------------------------------------------------------------
(* simulate_ds_player.py: main, run, run_lobby_mode, run_race_mode, cleanup *)

carVars == <<pos_x, pos_y, speed, angle, lap, item>>
toolVars == <<step, start_time, packet_count, packets_to_test, all_pass>>
sendVars == <<sequence_number, packets_sent, wire, lost>>

\* build_packet is called only while the counter is inside the window the
\* model explores: below MaxSeq, or past 2^16 where 2^32 is within reach
InWindow == sequence_number.hi > 0 \/ sequence_number.lo < MaxSeq

\* a session picked up after its first 65536 packets
Veteran == sequence_number.hi = 1
\* the clock advances only inside the time the model follows the session for
InTime == now < (IF Veteran THEN MaxLongTime ELSE MaxTime)

\* where control goes when a statement of the loops raises: run()'s finally
Raise(e) == pc' = "cleanup" /\ exc' = e

\* main forgetting --race
Main_ignores_race ==
    /\ prog = "simulate_ds_player" /\ pc = "main"
    /\ pc' = "run"
    /\ ev' = Quiet("main")
    /\ UNCHANGED toolVars
    /\ UNCHANGED <<prog, exc, args, player_id, is_ready, in_race, running, sock,
                   packets_received, last_heartbeat, last_status_print,
                   last_car_update, now, inputs>>
    /\ UNCHANGED carVars /\ UNCHANGED sendVars
\* main after parse_args and the range check: --race, then player.run()
Main ==
    /\ prog = "simulate_ds_player" /\ pc = "main"
    /\ in_race' = args.race
    /\ pc' = "run"
    /\ ev' = Quiet("main")
    /\ UNCHANGED toolVars
    /\ UNCHANGED <<prog, exc, args, player_id, is_ready, running, sock,
                   packets_received, last_heartbeat, last_status_print,
                   last_car_update, now, inputs>>
    /\ UNCHANGED carVars /\ UNCHANGED sendVars

\* run returning without its finally when the loop ends
Run_skips_cleanup ==
    /\ pc = "run"
    /\ pc' = IF ~running THEN "exit"
             ELSE IF in_race THEN "race_enter" ELSE "lobby_enter"
    /\ ev' = Quiet("run")
    /\ UNCHANGED toolVars
    /\ UNCHANGED <<prog, exc, args, player_id, is_ready, in_race, running, sock,
                   packets_received, last_heartbeat, last_status_print,
                   last_car_update, now, inputs>>
    /\ UNCHANGED carVars /\ UNCHANGED sendVars
\* run: while self.running, enter the mode in_race names; else the finally
Run ==
    /\ pc = "run"
    /\ pc' = IF ~running THEN "cleanup"
             ELSE IF in_race THEN "race_enter" ELSE "lobby_enter"
    /\ ev' = Quiet("run")
    /\ UNCHANGED toolVars
    /\ UNCHANGED <<prog, exc, args, player_id, is_ready, in_race, running, sock,
                   packets_received, last_heartbeat, last_status_print,
                   last_car_update, now, inputs>>
    /\ UNCHANGED carVars /\ UNCHANGED sendVars

\* run_lobby_mode up to its loop: send_lobby_join, last_status_print
LobbyEnter ==
    /\ pc = "lobby_enter" /\ InWindow
    /\ \E ok \in BOOLEAN :
         LET r == send_lobby_join(is_ready, ok)
         IN  /\ Sent(r)
             /\ ev' = [Quiet("run_lobby_mode") EXCEPT !.built = r.built, !.sent = r.sent]
             /\ IF r.raised # "none"
                THEN Raise(r.raised) /\ UNCHANGED last_status_print
                ELSE /\ pc' = "lobby_heartbeat" /\ exc' = exc
                     /\ last_status_print' = now
    /\ UNCHANGED toolVars
    /\ UNCHANGED <<prog, args, player_id, is_ready, in_race, running, sock,
                   packets_received, last_heartbeat, last_car_update, now, inputs>>
    /\ UNCHANGED carVars

\* lobby loop: the heartbeat, due one second after the last one sent
LobbyHeartbeat ==
    /\ pc = "lobby_heartbeat"
    /\ IF now - last_heartbeat >= HEARTBEAT_PERIOD
       THEN /\ InWindow
            /\ \E ok \in BOOLEAN :
                 LET r == send_lobby_update(is_ready, ok)
                 IN  /\ Sent(r)
                     /\ ev' = [Quiet("heartbeat") EXCEPT !.built = r.built, !.sent = r.sent]
                     /\ last_heartbeat' = IF r.sent THEN now ELSE last_heartbeat
                     /\ IF r.raised # "none" THEN Raise(r.raised)
                        ELSE pc' = "lobby_receive" /\ exc' = exc
       ELSE /\ NothingSent
            /\ ev' = Quiet("heartbeat")
            /\ pc' = "lobby_receive"
            /\ UNCHANGED <<exc, last_heartbeat>>
    /\ UNCHANGED toolVars
    /\ UNCHANGED <<prog, args, player_id, is_ready, in_race, running, sock,
                   packets_received, last_status_print, last_car_update, now, inputs>>
    /\ UNCHANGED carVars

\* receive_packets taking a Ready of another participant for its own
Receive_adopts_ready(here, next) ==
    /\ pc = here
    /\ inputs < MaxInputs
    /\ \E data \in Inbound :
         LET r == receive_packets(data)
         IN  /\ packets_received' = r.packets_received
             /\ is_ready' = (is_ready \/ r.tag = "MSG_READY")
             /\ ev' = [Quiet("receive") EXCEPT !.rx = "data", !.data = data,
                                              !.tag = r.tag, !.shown = r.shown]
    /\ inputs' = inputs + 1
    /\ pc' = next
    /\ UNCHANGED toolVars
    /\ UNCHANGED <<prog, exc, args, player_id, in_race, running, sock, now,
                   last_heartbeat, last_status_print, last_car_update>>
    /\ UNCHANGED carVars /\ UNCHANGED sendVars
\* self.receive_packets(): a datagram is waiting, or recvfrom times out
Receive(here, next) ==
    /\ pc = here
    /\ \/ /\ inputs < MaxInputs
          /\ \E data \in Inbound :
               LET r == receive_packets(data)
               IN  /\ packets_received' = r.packets_received
                   /\ ev' = [Quiet("receive") EXCEPT !.rx = "data", !.data = data,
                                                    !.tag = r.tag, !.shown = r.shown]
          /\ inputs' = inputs + 1
          /\ now' = now
       \/ /\ InTime
          /\ now' = now + RECV_TIMEOUT
          /\ ev' = [Quiet("receive") EXCEPT !.rx = "timeout"]
          /\ UNCHANGED <<packets_received, inputs>>
    /\ pc' = next
    /\ UNCHANGED toolVars
    /\ UNCHANGED <<prog, exc, args, player_id, is_ready, in_race, running, sock,
                   last_heartbeat, last_status_print, last_car_update>>
    /\ UNCHANGED carVars /\ UNCHANGED sendVars

LobbyReceive == Receive("lobby_receive", "lobby_input")
RaceReceive == Receive("race_receive", "race_input")

\* handle_lobby_input sending Ready before it flips is_ready
handle_lobby_input_sends_old(key, ok) ==
    LET none == [raised |-> "none", built |-> <<>>, sent |-> FALSE,
                 sequence_number |-> sequence_number, packets_sent |-> packets_sent,
                 wire |-> wire, lost |-> lost]
        same == [is_ready |-> is_ready, in_race |-> in_race, running |-> running,
                 send |-> none]
    IN  IF key \in {" ", "\n", "\r"}
        THEN [same EXCEPT !.is_ready = ~is_ready, !.send = send_ready(is_ready, ok)]
        ELSE IF Lower(key) = "r" THEN [same EXCEPT !.in_race = TRUE]
        ELSE IF Lower(key) = "q" THEN [same EXCEPT !.running = FALSE]
        ELSE same
\* handle_lobby_input clearing is_ready when the race starts
handle_lobby_input_unready(key, ok) ==
    LET none == [raised |-> "none", built |-> <<>>, sent |-> FALSE,
                 sequence_number |-> sequence_number, packets_sent |-> packets_sent,
                 wire |-> wire, lost |-> lost]
        same == [is_ready |-> is_ready, in_race |-> in_race, running |-> running,
                 send |-> none]
    IN  IF key \in {" ", "\n", "\r"}
        THEN [same EXCEPT !.is_ready = ~is_ready, !.send = send_ready(~is_ready, ok)]
        ELSE IF Lower(key) = "r" THEN [same EXCEPT !.in_race = TRUE, !.is_ready = FALSE]
        ELSE IF Lower(key) = "q" THEN [same EXCEPT !.running = FALSE]
        ELSE same
\* handle_lobby_input(key): the fields it assigns and the packet it sends
handle_lobby_input(key, ok) ==
    LET none == [raised |-> "none", built |-> <<>>, sent |-> FALSE,
                 sequence_number |-> sequence_number, packets_sent |-> packets_sent,
                 wire |-> wire, lost |-> lost]
        same == [is_ready |-> is_ready, in_race |-> in_race, running |-> running,
                 send |-> none]
    IN  IF key \in {" ", "\n", "\r"}
        THEN [same EXCEPT !.is_ready = ~is_ready, !.send = send_ready(~is_ready, ok)]
        ELSE IF Lower(key) = "r" THEN [same EXCEPT !.in_race = TRUE]
        ELSE IF Lower(key) = "q" THEN [same EXCEPT !.running = FALSE]
        ELSE same

\* a key that makes the handler build a packet
LobbySends(key) == key \in {" ", "\n", "\r"}

\* lobby loop: the status line every five seconds, then one key if one waits
LobbyInput ==
    /\ pc = "lobby_input"
    /\ last_status_print' =
         IF now - last_status_print >= STATUS_PERIOD THEN now ELSE last_status_print
    /\ \/ /\ ev' = Quiet("input")
          /\ pc' = "lobby_sleep"
          /\ NothingSent
          /\ UNCHANGED <<exc, is_ready, in_race, running, inputs>>
       \/ \E key \in Keys, ok \in BOOLEAN :
            LET h == handle_lobby_input(key, ok)
            IN  /\ inputs < MaxInputs /\ inputs' = inputs + 1
                /\ LobbySends(key) => InWindow
                /\ is_ready' = h.is_ready
                /\ in_race' = h.in_race
                /\ running' = h.running
                /\ Sent(h.send)
                /\ ev' = [Quiet("input") EXCEPT !.key = key, !.built = h.send.built,
                                                !.sent = h.send.sent]
                /\ IF h.send.raised # "none" THEN Raise(h.send.raised)
                   ELSE pc' = "lobby_sleep" /\ exc' = exc
    /\ UNCHANGED toolVars
    /\ UNCHANGED <<prog, args, player_id, sock, packets_received, last_heartbeat,
                   last_car_update, now>>
    /\ UNCHANGED carVars

\* time.sleep, then the loop condition; a session that has been told to
\* quit is followed to its end whatever the clock says
Sleep(here, d, again, stay) ==
    /\ pc = here
    /\ InTime \/ ~running
    /\ now' = now + d
    /\ pc' = IF stay THEN again ELSE "run"
    /\ ev' = Quiet("sleep")
    /\ UNCHANGED toolVars
    /\ UNCHANGED <<prog, exc, args, player_id, is_ready, in_race, running, sock,
                   packets_received, last_heartbeat, last_status_print,
                   last_car_update, inputs>>
    /\ UNCHANGED carVars /\ UNCHANGED sendVars

\* the lobby loop going on after start-race
LobbySleep_ignores_phase == Sleep("lobby_sleep", LOBBY_SLEEP, "lobby_heartbeat", running)
LobbySleep == Sleep("lobby_sleep", LOBBY_SLEEP, "lobby_heartbeat", running /\ ~in_race)
RaceSleep == Sleep("race_sleep", RACE_SLEEP, "race_update", running /\ in_race)

\* run_race_mode up to its loop: last_car_update = time.time()
RaceEnter ==
    /\ pc = "race_enter"
    /\ last_car_update' = now
    /\ pc' = "race_update"
    /\ ev' = Quiet("run_race_mode")
    /\ UNCHANGED toolVars
    /\ UNCHANGED <<prog, exc, args, player_id, is_ready, in_race, running, sock,
                   packets_received, last_heartbeat, last_status_print, now, inputs>>
    /\ UNCHANGED carVars /\ UNCHANGED sendVars

\* race loop: physics and a car update, due update_rate after the last one
RaceUpdate ==
    /\ pc = "race_update"
    /\ IF now - last_car_update >= update_rate
       THEN /\ InWindow
            /\ \E ok \in BOOLEAN :
                 LET c == update_car_physics
                     r == send_car_update(c.pos_x, c.pos_y, c.speed, c.angle, ok)
                 IN  /\ angle' = c.angle /\ speed' = c.speed
                     /\ pos_x' = c.pos_x /\ pos_y' = c.pos_y
                     /\ Sent(r)
                     /\ ev' = [Quiet("car_update") EXCEPT !.built = r.built, !.sent = r.sent]
                     /\ IF r.raised # "none"
                        THEN Raise(r.raised) /\ UNCHANGED last_car_update
                        ELSE /\ pc' = "race_receive" /\ exc' = exc
                             /\ last_car_update' = now
       ELSE /\ NothingSent
            /\ ev' = Quiet("car_update")
            /\ pc' = "race_receive"
            /\ UNCHANGED <<exc, last_car_update, angle, speed, pos_x, pos_y>>
    /\ UNCHANGED toolVars
    /\ UNCHANGED <<prog, args, player_id, is_ready, in_race, running, sock,
                   packets_received, last_heartbeat, last_status_print, now,
                   inputs, lap, item>>

\* handle_race_input leaving is_ready as it is on return-to-lobby
handle_race_input_keeps_ready(key, ok) ==
    LET none == [raised |-> "none", built |-> <<>>, sent |-> FALSE,
                 sequence_number |-> sequence_number, packets_sent |-> packets_sent,
                 wire |-> wire, lost |-> lost]
        same == [is_ready |-> is_ready, in_race |-> in_race, running |-> running,
                 send |-> none]
    IN  IF Lower(key) = "b"
        THEN [same EXCEPT !.send = send_item_placed(ITEM_BANANA, ok)]
        ELSE IF Lower(key) = "g"
        THEN [same EXCEPT !.send = send_item_placed(ITEM_GREEN_SHELL, ok)]
        ELSE IF Lower(key) = "l"
        THEN [same EXCEPT !.in_race = FALSE, !.send = send_lobby_join(is_ready, ok)]
        ELSE IF Lower(key) = "q" THEN [same EXCEPT !.running = FALSE]
        ELSE same
\* handle_race_input taking the toggle-ready keys of the lobby as well
handle_race_input_toggles_ready(key, ok) ==
    LET none == [raised |-> "none", built |-> <<>>, sent |-> FALSE,
                 sequence_number |-> sequence_number, packets_sent |-> packets_sent,
                 wire |-> wire, lost |-> lost]
        same == [is_ready |-> is_ready, in_race |-> in_race, running |-> running,
                 send |-> none]
    IN  IF Lower(key) = "b"
        THEN [same EXCEPT !.send = send_item_placed(ITEM_BANANA, ok)]
        ELSE IF Lower(key) = "g"
        THEN [same EXCEPT !.send = send_item_placed(ITEM_GREEN_SHELL, ok)]
        ELSE IF Lower(key) = "l"
        THEN [same EXCEPT !.in_race = FALSE, !.is_ready = FALSE,
                          !.send = send_lobby_join(FALSE, ok)]
        ELSE IF Lower(key) = "q" THEN [same EXCEPT !.running = FALSE]
        ELSE IF key \in {" ", "\n", "\r"}
        THEN [same EXCEPT !.is_ready = ~is_ready, !.send = send_ready(~is_ready, ok)]
        ELSE same
\* handle_race_input(key): the fields it assigns and the packet it sends
handle_race_input(key, ok) ==
    LET none == [raised |-> "none", built |-> <<>>, sent |-> FALSE,
                 sequence_number |-> sequence_number, packets_sent |-> packets_sent,
                 wire |-> wire, lost |-> lost]
        same == [is_ready |-> is_ready, in_race |-> in_race, running |-> running,
                 send |-> none]
    IN  IF Lower(key) = "b"
        THEN [same EXCEPT !.send = send_item_placed(ITEM_BANANA, ok)]
        ELSE IF Lower(key) = "g"
        THEN [same EXCEPT !.send = send_item_placed(ITEM_GREEN_SHELL, ok)]
        ELSE IF Lower(key) = "l"
        THEN [same EXCEPT !.in_race = FALSE, !.is_ready = FALSE,
                          !.send = send_lobby_join(FALSE, ok)]
        ELSE IF Lower(key) = "q" THEN [same EXCEPT !.running = FALSE]
        ELSE same

RaceSends(key) == Lower(key) \in {"b", "g", "l"}

\* race loop: one key if one waits
RaceInput ==
    /\ pc = "race_input"
    /\ \/ /\ ev' = Quiet("input")
          /\ pc' = "race_sleep"
          /\ NothingSent
          /\ UNCHANGED <<exc, is_ready, in_race, running, inputs>>
       \/ \E key \in Keys, ok \in BOOLEAN :
            LET h == handle_race_input(key, ok)
            IN  /\ inputs < MaxInputs /\ inputs' = inputs + 1
                /\ RaceSends(key) => InWindow
                /\ is_ready' = h.is_ready
                /\ in_race' = h.in_race
                /\ running' = h.running
                /\ Sent(h.send)
                /\ ev' = [Quiet("input") EXCEPT !.key = key, !.built = h.send.built,
                                                !.sent = h.send.sent]
                /\ IF h.send.raised # "none" THEN Raise(h.send.raised)
                   ELSE pc' = "race_sleep" /\ exc' = exc
    /\ UNCHANGED toolVars
    /\ UNCHANGED <<prog, args, player_id, sock, packets_received, last_heartbeat,
                   last_status_print, last_car_update, now>>
    /\ UNCHANGED carVars

\* Ctrl+C while the loops run: KeyboardInterrupt, caught by run()
LoopPcs == {"run", "lobby_enter", "lobby_heartbeat", "lobby_receive", "lobby_input",
            "lobby_sleep", "race_enter", "race_update", "race_receive",
            "race_input", "race_sleep"}
Interrupt ==
    /\ pc \in LoopPcs
    /\ inputs < MaxInputs /\ inputs' = inputs + 1
    /\ Raise("KeyboardInterrupt")
    /\ ev' = Quiet("interrupt")
    /\ UNCHANGED toolVars
    /\ UNCHANGED <<prog, args, player_id, is_ready, in_race, running, sock,
                   packets_received, last_heartbeat, last_status_print,
                   last_car_update, now>>
    /\ UNCHANGED carVars /\ UNCHANGED sendVars

\* cleanup closing the socket without the Disconnect
Cleanup_skips_disconnect ==
    /\ pc = "cleanup"
    /\ NothingSent
    /\ ev' = Quiet("cleanup")
    /\ sock' = "closed"
    /\ exc' = exc
    /\ pc' = IF exc \in {"none", "KeyboardInterrupt"} THEN "exit" ELSE "traceback"
    /\ UNCHANGED toolVars
    /\ UNCHANGED <<prog, args, player_id, is_ready, in_race, running,
                   packets_received, last_heartbeat, last_status_print,
                   last_car_update, now, inputs>>
    /\ UNCHANGED carVars
\* run()'s finally: cleanup() = send_disconnect, sock.close, the statistics;
\* then run() returns, or the exception that ended the loops leaves main
Cleanup ==
    /\ pc = "cleanup"
    /\ \E ok \in BOOLEAN :
         LET r == send_disconnect(ok)
         IN  /\ Sent(r)
             /\ ev' = [Quiet("cleanup") EXCEPT !.built = r.built, !.sent = r.sent]
             /\ IF r.raised # "none"
                THEN /\ sock' = sock
                     /\ exc' = r.raised
                     /\ pc' = "traceback"
                ELSE /\ sock' = "closed"
                     /\ exc' = exc
                     /\ pc' = IF exc \in {"none", "KeyboardInterrupt"}
                              THEN "exit" ELSE "traceback"
    /\ UNCHANGED toolVars
    /\ UNCHANGED <<prog, args, player_id, is_ready, in_race, running,
                   packets_received, last_heartbeat, last_status_print,
                   last_car_update, now, inputs>>
    /\ UNCHANGED carVars

-----------------------------------------------------------------------------
(* test_multiplayer.py: NetworkPacketBuilder *)

\* the header every build_* method packs, and the counter after it
BuilderHeader(msg_type) ==
    PackHeader(PROTOCOL_VERSION, msg_type, player_id, 0, sequence_number)
Built(msg_type, payload) ==
    [fits |-> CanPackHeader(PROTOCOL_VERSION, msg_type, player_id, 0, sequence_number),
     packet |-> BuilderHeader(msg_type) \o payload,
     sequence_number |-> Plus1(sequence_number)]

build_lobby_join == Built(MSG_LOBBY_JOIN, PackLobby(FALSE))
build_lobby_update(ready) == Built(MSG_LOBBY_UPDATE, PackLobby(ready))
build_ready(ready) == Built(MSG_READY, PackLobby(ready))
build_car_update(x, y, v, angle512, l, it) ==
    Built(MSG_CAR_UPDATE, PackCar(ToQ16_8(x), ToQ16_8(y), ToQ16_8(v), angle512, l, it))
build_item_placed(item_type, x, y, angle512, v) ==
    Built(MSG_ITEM_PLACED,
          PackItem(item_type, ToQ16_8(x), ToQ16_8(y), angle512, ToQ16_8(v)))
build_item_box_pickup(box_index) == Built(MSG_ITEM_BOX_PICKUP, PackBox(box_index))
build_disconnect == Built(MSG_DISCONNECT, PackDisconnect)

\* a call of the builder, by method name and argument tuple
Call(m, a) ==
    CASE m = "build_lobby_join" -> build_lobby_join
      [] m = "build_lobby_update" -> build_lobby_update(a[1])
      [] m = "build_ready" -> build_ready(a[1])
      [] m = "build_car_update" -> build_car_update(a[1], a[2], a[3], a[4], a[5], a[6])
      [] m = "build_item_placed" -> build_item_placed(a[1], a[2], a[3], a[4], a[5])
      [] m = "build_item_box_pickup" -> build_item_box_pickup(a[1])
      [] m = "build_disconnect" -> build_disconnect

\* the calls of test_lobby_sequence, test_race_sequence and test_item_usage,
\* each with the time.sleep that follows it
Do(m, a, sleep) == [m |-> m, a |-> a, sleep |-> sleep]
test_lobby_sequence ==
    <<Do("build_lobby_join", <<>>, 150)>>
    \o [i \in 1..5 |-> Do("build_lobby_update", <<FALSE>>, 300)]
    \o <<Do("build_ready", <<TRUE>>, 150), Do("build_disconnect", <<>>, 0)>>
test_race_sequence ==
    [k \in 1..10 |->
        LET i == k - 1
        IN  Do("build_car_update",
               <<Float(100) + i * Float(5), Float(100) + i * Float(5),
                 Float(5) + i * 512, i * 51, 1, ITEM_NONE>>, 30)]
test_item_usage ==
    <<Do("build_item_box_pickup", <<3>>, 150),
      Do("build_item_placed", <<ITEM_BANANA, Float(150), Float(200), 128, Float(0)>>, 150),
      Do("build_item_placed", <<ITEM_GREEN_SHELL, Float(150), Float(200), 256, Float(10)>>, 0)>>
Script(test) ==
    CASE test = "test_lobby" -> test_lobby_sequence
      [] test = "test_race" -> test_race_sequence
      [] test = "test_items" -> test_item_usage

\* main: the tests --test selects, in the order main runs them
Selected ==
    CASE args.test = "lobby" -> <<"test_lobby">>
      [] args.test = "race" -> <<"test_race">>
      [] args.test = "items" -> <<"test_items">>
      [] args.test = "all" -> <<"test_lobby", "test_race", "test_items">>
After(test) ==
    LET rest == SelectSeq(Selected,
                          LAMBDA t : \E i, j \in 1..Len(Selected) :
                                        Selected[i] = test /\ Selected[j] = t /\ i < j)
    IN  IF rest = <<>> THEN "exit" ELSE rest[1]

playerVars == <<is_ready, in_race, running, packets_sent, packets_received,
                last_heartbeat, last_status_print, last_car_update>>

\* the start of a test function: a socket and NetworkPacketBuilder(player_id)
TestEnter(test) ==
    /\ pc' = test
    /\ sock' = "open"
    /\ player_id' = args.player_id
    /\ sequence_number' = Big(0, 0)
    /\ step' = 1
    /\ wire' = <<>> /\ lost' = 0

\* main of test_multiplayer.py with --test: the first selected test starts
TestMain ==
    /\ prog = "test_multiplayer" /\ pc = "main" /\ ~args.listen
    /\ TestEnter(Selected[1])
    /\ ev' = Quiet("main")
    /\ UNCHANGED <<prog, exc, args, now, inputs, start_time, packet_count,
                   packets_to_test, all_pass>>
    /\ UNCHANGED carVars /\ UNCHANGED playerVars

\* one build_* call, send_packet and the sleep after it
TestSend ==
    /\ prog = "test_multiplayer" /\ pc \in {"test_lobby", "test_race", "test_items"}
    /\ step <= Len(Script(pc))
    /\ LET do == Script(pc)[step]
           b == Call(do.m, do.a)
       IN  \E ok \in BOOLEAN :
             IF ~b.fits
             THEN /\ pc' = "traceback" /\ exc' = "struct.error"
                  /\ ev' = Quiet(do.m)
                  /\ UNCHANGED <<sequence_number, wire, lost, now, step>>
             ELSE /\ sequence_number' = b.sequence_number
                  /\ ev' = [Quiet(do.m) EXCEPT !.built = b.packet, !.sent = ok]
                  /\ IF ok
                     THEN /\ wire' = b.packet /\ lost' = 0
                          /\ now' = now + do.sleep
                          /\ step' = step + 1
                          /\ UNCHANGED <<pc, exc>>
                     ELSE /\ pc' = "traceback" /\ exc' = "OSError"
                          /\ lost' = lost + 1
                          /\ UNCHANGED <<wire, now, step>>
    /\ UNCHANGED <<prog, args, player_id, sock, inputs, start_time, packet_count,
                   packets_to_test, all_pass>>
    /\ UNCHANGED carVars /\ UNCHANGED playerVars

\* the end of a test function: sock.close(); then the next selected test
TestEnd ==
    /\ prog = "test_multiplayer" /\ pc \in {"test_lobby", "test_race", "test_items"}
    /\ step > Len(Script(pc))
    /\ IF After(pc) = "exit"
       THEN /\ pc' = "exit" /\ sock' = "closed"
            /\ UNCHANGED <<player_id, sequence_number, step, wire, lost>>
       ELSE TestEnter(After(pc))
    /\ ev' = Quiet("close")
    /\ UNCHANGED <<prog, exc, args, now, inputs, start_time, packet_count,
                   packets_to_test, all_pass>>
    /\ UNCHANGED carVars /\ UNCHANGED playerVars

\* the name listen_for_packets prints for a message type
listen_type_name(msg_type) ==
    IF msg_type < 7 THEN MessageTypeName(msg_type) ELSE "UNKNOWN"

\* main with --listen: listen_for_packets up to its loop
ListenEnter ==
    /\ prog = "test_multiplayer" /\ pc = "main" /\ args.listen
    /\ pc' = "listen"
    /\ sock' = "open"
    /\ start_time' = now
    /\ packet_count' = 0
    /\ ev' = Quiet("main")
    /\ UNCHANGED <<prog, exc, args, player_id, sequence_number, now, wire, lost,
                   inputs, step, packets_to_test, all_pass>>
    /\ UNCHANGED carVars /\ UNCHANGED playerVars

\* one turn of the loop of listen_for_packets, or its end
Listen ==
    /\ prog = "test_multiplayer" /\ pc = "listen"
    /\ IF now - start_time < args.duration * 300
       THEN \/ /\ inputs < MaxInputs
               /\ \E data \in Foreign :
                    /\ packet_count' = packet_count + 1
                    /\ ev' = [Quiet("listen") EXCEPT
                                !.rx = "data", !.data = data,
                                !.tag = IF Len(data) >= 8
                                        THEN listen_type_name(UnpackHeader(data).msg_type)
                                        ELSE "",
                                !.shown = Len(data) >= 8]
               /\ inputs' = inputs + 1
               /\ UNCHANGED <<now, pc, sock>>
            \/ /\ now' = now + 300
               /\ ev' = [Quiet("listen") EXCEPT !.rx = "timeout"]
               /\ UNCHANGED <<packet_count, inputs, pc, sock>>
       ELSE /\ pc' = "exit" /\ sock' = "closed"
            /\ ev' = Quiet("close")
            /\ UNCHANGED <<now, packet_count, inputs>>
    /\ UNCHANGED <<prog, exc, args, player_id, sequence_number, wire, lost,
                   start_time, step, packets_to_test, all_pass>>
    /\ UNCHANGED carVars /\ UNCHANGED playerVars

-----------------------------------------------------------------------------
(* verify_packet_size.py: the checks on NetworkPacketBuilder(player_id=5) *)

verify_calls ==
    <<Do("build_lobby_join", <<>>, 0),
      Do("build_lobby_update", <<FALSE>>, 0),
      Do("build_ready", <<TRUE>>, 0),
      Do("build_car_update", <<Float(100), Float(200), Float(5), 256, 1, ITEM_NONE>>, 0),
      Do("build_item_placed", <<1, Float(150), Float(200), 128, Float(10)>>, 0),
      Do("build_item_box_pickup", <<3>>, 0),
      Do("build_disconnect", <<>>, 0)>>

\* the next element of packets_to_test is built
VerifyBuild ==
    /\ prog = "verify_packet_size" /\ pc = "main"
    /\ step <= Len(verify_calls)
    /\ LET do == verify_calls[step]
           b == Call(do.m, do.a)
       IN  /\ sequence_number' = b.sequence_number
           /\ packets_to_test' = Append(packets_to_test, b.packet)
           /\ ev' = [Quiet(do.m) EXCEPT !.built = b.packet]
    /\ step' = step + 1
    /\ UNCHANGED <<prog, pc, exc, args, player_id, sock, now, wire, lost, inputs,
                   start_time, packet_count, all_pass>>
    /\ UNCHANGED carVars /\ UNCHANGED playerVars

\* the loop over packets_to_test: all_pass
VerifyCheck ==
    /\ prog = "verify_packet_size" /\ pc = "main"
    /\ step > Len(verify_calls)
    /\ all_pass' = \A i \in 1..Len(packets_to_test) : Len(packets_to_test[i]) = 32
    /\ pc' = "exit"
    /\ ev' = Quiet("check")
    /\ UNCHANGED <<prog, exc, args, player_id, sequence_number, sock, now, wire,
                   lost, inputs, step, start_time, packet_count, packets_to_test>>
    /\ UNCHANGED carVars /\ UNCHANGED playerVars

-----------------------------------------------------------------------------

\* simulate_ds_player.py after parse_args: an id out of range ends main
\* before a player exists, else the player is constructed
InitSimulate ==
    /\ prog = "simulate_ds_player"
    /\ args \in [player_id : ArgPlayerIds, race : BOOLEAN, test : {""},
                 listen : {FALSE}, duration : {0}]
    /\ ToolsIdle
    /\ now = 0
    /\ exc = "none"
    /\ wire = <<>> /\ lost = 0 /\ inputs = 0
    /\ ev = Quiet("init")
    /\ IF args.player_id < 0 \/ args.player_id >= MAX_MULTIPLAYER_PLAYERS
       THEN /\ pc = "rejected"
            /\ player_id = args.player_id
            /\ sequence_number = Big(0, 0)
            /\ sock = "none"
            /\ PlayerIdle
       ELSE /\ pc = "main"
            /\ Constructed(args.player_id)
            /\ last_status_print = 0 /\ last_car_update = 0

\* test_multiplayer.py after parse_args, with --test or --listen
InitTest ==
    /\ prog = "test_multiplayer"
    /\ \/ args \in [player_id : ArgPlayerIds, race : {FALSE},
                     test : {"lobby", "race", "items", "all"},
                     listen : {FALSE}, duration : {0}]
       \/ args \in [player_id : {7}, race : {FALSE}, test : {""},
                     listen : {TRUE}, duration : {1}]
    /\ pc = "main"
    /\ now = 0 /\ exc = "none"
    /\ wire = <<>> /\ lost = 0 /\ inputs = 0
    /\ ev = Quiet("init")
    /\ player_id = args.player_id
    /\ sequence_number = Big(0, 0)
    /\ sock = "none"
    /\ PlayerIdle /\ ToolsIdle

\* verify_packet_size.py at builder = NetworkPacketBuilder(player_id=5)
InitVerify ==
    /\ prog = "verify_packet_size"
    /\ args = [player_id |-> 5, race |-> FALSE, test |-> "", listen |-> FALSE,
               duration |-> 0]
    /\ pc = "main"
    /\ now = 0 /\ exc = "none"
    /\ wire = <<>> /\ lost = 0 /\ inputs = 0
    /\ ev = Quiet("init")
    /\ player_id = 5
    /\ sequence_number = Big(0, 0)
    /\ sock = "none"
    /\ PlayerIdle
    /\ step = 1 /\ start_time = 0 /\ packet_count = 0
    /\ packets_to_test = <<>> /\ all_pass = TRUE

Init == InitSimulate \/ InitTest \/ InitVerify

Next ==
    \/ Main \/ Run
    \/ LobbyEnter \/ LobbyHeartbeat \/ LobbyReceive \/ LobbyInput \/ LobbySleep
    \/ RaceEnter \/ RaceUpdate \/ RaceReceive \/ RaceInput \/ RaceSleep
    \/ Interrupt \/ Cleanup
    \/ TestMain \/ TestSend \/ TestEnd \/ ListenEnter \/ Listen
    \/ VerifyBuild \/ VerifyCheck

Spec == Init /\ [][Next]_vars

\* A session long into its life: a lobby heartbeat has just been sent and
\* carried 2^32 - 3 or 2^32 - 2.  The clock is rebased to the moment of
\* that heartbeat.
NearWrap == {Big(65535, 65533), Big(65535, 65534)}
InitNearWrap ==
    /\ prog = "simulate_ds_player"
    /\ args \in [player_id : {0, 7}, race : {FALSE}, test : {""},
                 listen : {FALSE}, duration : {0}]
    /\ ToolsIdle
    /\ pc = "lobby_receive"
    /\ now = 0 /\ exc = "none"
    /\ player_id = args.player_id
    /\ \E s \in NearWrap :
         /\ sequence_number = Plus1(s)
         /\ wire = PackHeader(PROTOCOL_VERSION, MSG_LOBBY_UPDATE, player_id, 0, s)
                      \o PackLobby(FALSE)
         /\ ev = [Quiet("heartbeat") EXCEPT !.built = wire, !.sent = TRUE]
    /\ is_ready = FALSE /\ in_race = FALSE /\ running = TRUE
    /\ pos_x = Float(100) + player_id * Float(20)
    /\ pos_y = Float(100) + player_id * Float(20)
    /\ speed = Float(0) /\ angle = 0 /\ lap = 1 /\ item = ITEM_NONE
    /\ sock = "open"
    /\ packets_sent = 2 /\ packets_received = 0
    /\ last_heartbeat = now /\ last_status_print = now /\ last_car_update = 0
    /\ lost = 0 /\ inputs = 0

SpecWrap == (Init \/ InitNearWrap) /\ [][Next]_vars

\* The launches of simulate_ds_player.py in front of an environment that
\* acts once: one key, one datagram or one Ctrl+C.
InitLastInput ==
    /\ prog = "simulate_ds_player"
    /\ args \in [player_id : ArgPlayerIds, race : BOOLEAN, test : {""},
                 listen : {FALSE}, duration : {0}]
    /\ ToolsIdle
    /\ now = 0
    /\ exc = "none"
    /\ wire = <<>> /\ lost = 0 /\ inputs = MaxInputs - 1
    /\ ev = Quiet("init")
    /\ IF args.player_id < 0 \/ args.player_id >= MAX_MULTIPLAYER_PLAYERS
       THEN /\ pc = "rejected"
            /\ player_id = args.player_id
            /\ sequence_number = Big(0, 0)
            /\ sock = "none"
            /\ PlayerIdle
       ELSE /\ pc = "main"
            /\ Constructed(args.player_id)
            /\ last_status_print = 0 /\ last_car_update = 0

\* The programs are single threads that keep executing: whenever a next
\* statement can run, one eventually does.
SpecFair ==
    /\ InitLastInput \/ InitTest \/ InitVerify
    /\ [][Next]_vars
    /\ WF_vars(Next)

\* A session picked up after its first 65536 packets, all of them sent, at
\* the top of the loop of run(), with a terminal and a network that stay
\* quiet from then on.  The clock is rebased to that moment.  Its history is
\* one of:
\*   - a life in the lobby, the last heartbeat sent in the iteration that
\*     took start-race;
\*   - the same, then a race of one iteration ended by return-to-lobby;
\*   - a race of 91 CarUpdates ended by return-to-lobby, the last heartbeat
\*     as old as the race.
LongHistories ==
    { [in_race |-> TRUE, sent |-> MSG_LOBBY_UPDATE, last_heartbeat |-> -45,
       last_car_update |-> 0, pos_x |-> Float(100), pos_y |-> Float(100),
       speed |-> Float(0), angle |-> 0],
      [in_race |-> FALSE, sent |-> MSG_LOBBY_JOIN, last_heartbeat |-> -78,
       last_car_update |-> -33, pos_x |-> Float(100), pos_y |-> Float(100),
       speed |-> Float(0), angle |-> 0],
      [in_race |-> FALSE, sent |-> MSG_LOBBY_JOIN, last_heartbeat |-> -3081,
       last_car_update |-> -33, pos_x |-> 82905, pos_y |-> 120350,
       speed |-> Float(5), angle |-> 455] }
InitLong ==
    /\ prog = "simulate_ds_player"
    /\ args = [player_id |-> 0, race |-> FALSE, test |-> "", listen |-> FALSE,
               duration |-> 0]
    /\ ToolsIdle
    /\ pc = "run"
    /\ now = 0 /\ exc = "none"
    /\ player_id = args.player_id
    /\ sequence_number = Big(1, 0)
    /\ \E h \in LongHistories :
         /\ in_race = h.in_race
         /\ wire = PackHeader(PROTOCOL_VERSION, h.sent, player_id, 0, Big(0, 65535))
                      \o PackLobby(FALSE)
         /\ last_heartbeat = h.last_heartbeat
         /\ last_status_print = h.last_heartbeat
         /\ last_car_update = h.last_car_update
         /\ pos_x = h.pos_x /\ pos_y = h.pos_y
         /\ speed = h.speed /\ angle = h.angle
    /\ is_ready = FALSE /\ running = TRUE
    /\ lap = 1 /\ item = ITEM_NONE
    /\ sock = "open"
    /\ packets_sent = 65536 /\ packets_received = 0
    /\ lost = 0 /\ inputs = MaxInputs
    /\ ev = Quiet("sleep")

SpecLong == (Init \/ InitLong) /\ [][Next]_vars

-----------------------------------------------------------------------------
(* Properties *)

Simulate == prog = "simulate_ds_player"
\* fields of a packet as the receivers read them: struct.unpack on data[:8]
HeaderOf(p) == UnpackHeader(SubSeq(p, 1, 8))
TypeOf(p) == HeaderOf(p).msg_type
SeqOf(p) == HeaderOf(p).seq_num
\* the step just taken built a packet / handed one to the network
BuiltNow == ev.built # <<>>
\* the local commands, as steps of the input handlers
ToggleReady == Simulate /\ pc = "lobby_input" /\ ev'.op = "input" /\ ev'.key \in {" ", "\n", "\r"}
StartRace == Simulate /\ pc = "lobby_input" /\ ev'.op = "input" /\ Lower(ev'.key) = "r"
ReturnToLobby == Simulate /\ pc = "race_input" /\ ev'.op = "input" /\ Lower(ev'.key) = "l"

\* C1: every packet a build_* method of NetworkPacketBuilder returns and
\* every packet a send_* method of SimulatedDSPlayer builds is exactly 32
\* bytes long, an 8 byte header followed by a 24 byte payload; so is every
\* datagram handed to the network and every element of packets_to_test.
C1_PacketIs32Bytes ==
    /\ BuiltNow => Len(ev.built) = 32
    /\ wire # <<>> => Len(wire) = 32
    /\ \A i \in 1..Len(packets_to_test) : Len(packets_to_test[i]) = 32
\* C1 witness: verify_packet_size.py has built one packet of each of the
\* seven message types and found them all 32 bytes long.
C1_Witness ==
    /\ prog = "verify_packet_size" /\ pc = "exit" /\ all_pass
    /\ Len(packets_to_test) = 7
    /\ \A t \in 0..6 : TypeOf(packets_to_test[t + 1]) = t

\* C2 as claimed: whether or not send attempts fail, two consecutive
\* datagrams that reach the socket of one sender carry sequence numbers
\* that differ by exactly 1 modulo 2^32.
C2_NoGaps ==
    [][(ev'.sent /\ wire # <<>> /\ wire' # wire)
        => LET a == SeqOf(wire)
               b == SeqOf(wire')
           IN  b = (IF a = Big(65535, 65535) THEN Big(0, 0) ELSE Plus1(a))]_vars
\* n added to a counter
PlusN(s, n) == LET lo == s.lo + n IN Big(s.hi + lo \div 65536, lo % 65536)
\* C2 amended: the sequence numbers of the datagrams that reach the socket
\* of one sender strictly increase, without repeats, and two consecutive
\* ones differ by exactly 1 plus the number of packets built between them
\* whose send failed.
C2_GapIsFailedSends ==
    [][(ev'.sent /\ wire # <<>> /\ wire' # wire)
        => /\ Less(SeqOf(wire), SeqOf(wire'))
           /\ SeqOf(wire') = PlusN(SeqOf(wire), 1 + lost)]_vars
\* C2 witness: a datagram has just reached the socket after an earlier
\* one, and some packet built before it was lost to a failed send.
C2_Witness ==
    /\ Simulate /\ ev.sent /\ packets_sent >= 2
    /\ sequence_number.hi = 0 /\ sequence_number.lo > packets_sent

\* a step that makes a new NetworkPacketBuilder, whose counter is its own
NewBuilder == prog = "test_multiplayer" /\ pc' \in {"test_lobby", "test_race", "test_items"} /\ step' = 1 /\ step # 0
FirstBuilder == prog = "test_multiplayer" /\ pc = "main"
\* C3: a step that builds a packet adds exactly one to sequence_number and
\* the packet carries the value from before the step, whatever the message
\* type; every other step of the session (toggle-ready aside from its
\* packet, start-race, return-to-lobby aside from its packet, receive, quit)
\* leaves the counter as it is.
C3_OneIncrementPerBuild ==
    [][IF ev'.built # <<>>
       THEN sequence_number' = Plus1(sequence_number) /\ SeqOf(ev'.built) = sequence_number
       ELSE NewBuilder \/ FirstBuilder \/ sequence_number' = sequence_number]_vars
\* C3 witness: after a LobbyJoin and a Ready in the lobby, the session
\* went racing and its first CarUpdate took the third sequence number.
C3_Witness ==
    /\ Simulate /\ BuiltNow /\ TypeOf(ev.built) = MSG_CAR_UPDATE
    /\ SeqOf(ev.built) = Big(0, 2) /\ sequence_number = Big(0, 3)
    /\ is_ready /\ in_race

\* C4 as claimed: the counter is a uint32 that wraps: once a packet carrying
\* 2^32 - 1 has been built, the next build of the session succeeds and its
\* packet carries 0.  (A step that ends with struct.error pending is a
\* build that failed to pack its header.)
C4_WrapsAt2Pow32 ==
    [][(Simulate /\ sequence_number = Big(65536, 0)
            /\ (ev'.built # <<>> \/ exc' = "struct.error"))
        => (ev'.built # <<>> /\ SeqOf(ev'.built) = Big(0, 0))]_vars

\* the message type the step named by an event is to build
ExpectedType(e) ==
    CASE e.op \in {"run_lobby_mode", "build_lobby_join"} -> MSG_LOBBY_JOIN
      [] e.op \in {"heartbeat", "build_lobby_update"} -> MSG_LOBBY_UPDATE
      [] e.op = "build_ready" -> MSG_READY
      [] e.op \in {"car_update", "build_car_update"} -> MSG_CAR_UPDATE
      [] e.op = "build_item_placed" -> MSG_ITEM_PLACED
      [] e.op = "build_item_box_pickup" -> MSG_ITEM_BOX_PICKUP
      [] e.op \in {"cleanup", "build_disconnect"} -> MSG_DISCONNECT
      [] e.op = "input" ->
            IF e.key \in {" ", "\n", "\r"} THEN MSG_READY
            ELSE IF Lower(e.key) = "l" THEN MSG_LOBBY_JOIN
            ELSE MSG_ITEM_PLACED
\* C5: the first 8 bytes of every packet built, read back with the
\* receiver's struct.unpack('<BBBBI'), give protocol version 1, the message
\* type that was built, the sender's participant id, reserved 0 and the
\* sequence number the counter held before the build, for ids 0 and 7 and
\* counters 0 and 2^32 - 1 included.
C5_HeaderRoundTrip ==
    BuiltNow =>
        LET h == HeaderOf(ev.built)
        IN  /\ h.version = 1
            /\ h.msg_type = ExpectedType(ev)
            /\ h.player_id = player_id
            /\ h.padding = 0
            /\ Plus1(h.seq_num) = sequence_number
\* C5 witness: participant 7 has built a packet carrying 2^32 - 1.
C5_Witness ==
    /\ BuiltNow /\ player_id = 7
    /\ HeaderOf(ev.built).seq_num = Big(65535, 65535)
    /\ sequence_number = Big(65536, 0)

\* C6: a datagram read by the session whose participant id is the local
\* one is not counted in packets_received and no line is printed for it, in
\* the lobby and in the race, whatever its message type.
C6_SelfEchoSuppressed ==
    [][(Simulate /\ ev'.rx = "data" /\ Len(ev'.data) >= 8
            /\ HeaderOf(ev'.data).player_id = player_id)
        => packets_received' = packets_received /\ ~ev'.shown]_vars
\* C6 witness: in the race, the session has read back its own CarUpdate.
C6_Witness ==
    /\ Simulate /\ in_race /\ ev.rx = "data" /\ ev.data = wire /\ wire # <<>>
    /\ TypeOf(ev.data) = MSG_CAR_UPDATE
    /\ HeaderOf(ev.data).player_id = player_id
    /\ packets_received = 0

\* the session is about to take the first turn of run()
Started == Simulate /\ pc = "run" /\ ev.op = "main"
\* C7 as claimed: every session starts in the lobby, not ready, with the
\* counter at 0, however it was launched.
C7_StartsInLobby ==
    Started => ~in_race /\ ~is_ready /\ sequence_number = Big(0, 0)
\* C7 amended: every session is constructed in the lobby, not ready, with
\* the counter at 0; it starts running not ready and with the counter at 0,
\* in the race when launched with --race and in the lobby otherwise.
C7_StartsWhereLaunched ==
    /\ (Simulate /\ pc = "main") => ~in_race /\ ~is_ready /\ sequence_number = Big(0, 0)
    /\ Started => in_race = args.race /\ ~is_ready /\ sequence_number = Big(0, 0)
\* C7 witness: a session launched with --race is about to start.
C7_Witness == Started /\ args.race /\ in_race

\* C8: toggle-ready in the lobby leaves in_race false, flips is_ready and
\* builds exactly one packet, a Ready whose first payload byte is the new
\* is_ready; no other step taken while the session stays in the lobby
\* changes is_ready, so a second toggle restores the value.
C8_ToggleReady ==
    [][/\ ToggleReady =>
            /\ ~in_race' /\ is_ready' = ~is_ready
            /\ ev'.built # <<>> /\ TypeOf(ev'.built) = MSG_READY
            /\ ev'.built[9] = (IF is_ready' THEN 1 ELSE 0)
            /\ sequence_number' = Plus1(sequence_number)
            /\ (ev'.sent => wire' = ev'.built /\ packets_sent' = packets_sent + 1)
       /\ (Simulate /\ ~in_race /\ ~in_race' /\ ~ToggleReady) => is_ready' = is_ready]_vars
\* C8 witness: the second of two toggles has just sent Ready with byte 0.
C8_Witness ==
    /\ Simulate /\ ev.op = "input" /\ ev.key = " " /\ ev.sent
    /\ TypeOf(ev.built) = MSG_READY /\ ev.built[9] = 0
    /\ ~is_ready /\ ~in_race /\ sequence_number = Big(0, 3)
    /\ now < HEARTBEAT_PERIOD /\ inputs = 2

\* C9: start-race in the lobby sets in_race, builds no packet and leaves
\* is_ready, sequence_number, packets_sent and packets_received as they
\* are; the race loop is entered with its CarUpdate timer started at that
\* moment, and a CarUpdate is built only by the race loop when update_rate
\* has passed since the loop was entered or since the last CarUpdate.
C9_StartRace ==
    [][/\ StartRace =>
            /\ in_race' /\ ev'.built = <<>> /\ ~ev'.sent
            /\ UNCHANGED <<is_ready, sequence_number, packets_sent, packets_received, wire>>
       /\ (Simulate /\ pc = "race_enter") =>
            (pc' = "race_update" => last_car_update' = now' /\ ev'.built = <<>>)
       /\ (Simulate /\ ev'.built # <<>> /\ TypeOf(ev'.built) = MSG_CAR_UPDATE) =>
            /\ pc = "race_update"
            /\ now - last_car_update >= update_rate]_vars
\* C9 witness: a ready session has just taken start-race.
C9_Witness ==
    /\ Simulate /\ pc = "lobby_sleep" /\ ev.op = "input" /\ ev.key = "r"
    /\ in_race /\ is_ready /\ sequence_number = Big(0, 2)

\* C10: return-to-lobby in the race clears in_race, clears is_ready
\* whatever it was, and builds a LobbyJoin whose first payload byte is 0.
C10_ReturnToLobby ==
    [][ReturnToLobby =>
            /\ ~in_race' /\ ~is_ready'
            /\ ev'.built # <<>> /\ TypeOf(ev'.built) = MSG_LOBBY_JOIN
            /\ ev'.built[9] = 0
            /\ (ev'.sent => wire' = ev'.built)]_vars
\* C10 witness: a session that was ready when it went racing has just
\* returned to the lobby, before any CarUpdate or heartbeat.
C10_Witness ==
    /\ Simulate /\ ev.op = "input" /\ ev.key = "l" /\ ev.sent
    /\ TypeOf(ev.built) = MSG_LOBBY_JOIN /\ ev.built[9] = 0
    /\ ~in_race /\ ~is_ready
    /\ sequence_number = Big(0, 3) /\ angle = 0 /\ now < HEARTBEAT_PERIOD

\* the local quit command, as a step of the input handlers
Quit == Simulate /\ pc \in {"lobby_input", "race_input"} /\ ev'.op = "input" /\ Lower(ev'.key) = "q"
\* the session has ended: run() has returned or an exception has left main
Terminal == pc \in {"exit", "traceback"}
\* C11: the quit command in either phase only clears the running flag and
\* builds nothing; a session that is no longer running builds nothing until
\* cleanup, which it reaches by the end of the loop iteration (or at once
\* on Ctrl+C); cleanup
\* builds one Disconnect on the open socket and closes the socket in the
\* same step; no other step builds a Disconnect, and once the socket is
\* closed no packet is built or sent and the counters stay as they are.
C11_QuitDisconnects ==
    [][Simulate =>
        /\ Quit => ~running' /\ ev'.built = <<>> /\ in_race' = in_race
        /\ (~running /\ pc \in {"lobby_sleep", "race_sleep"}) =>
              (pc' = "run" \/ (ev'.op = "interrupt" /\ pc' = "cleanup"))
        /\ (~running /\ pc = "run") => pc' = "cleanup"
        /\ (~running /\ ev'.built # <<>>) => pc = "cleanup"
        /\ pc = "cleanup" =>
              /\ ev'.built # <<>> /\ TypeOf(ev'.built) = MSG_DISCONNECT
              /\ sock = "open" /\ sock' = "closed" /\ Terminal'
              /\ (ev'.sent => wire' = ev'.built)
        /\ (ev'.built # <<>> /\ TypeOf(ev'.built) = MSG_DISCONNECT) => pc = "cleanup"
        /\ sock = "closed" =>
              /\ ev'.built = <<>> /\ ~ev'.sent
              /\ UNCHANGED <<sequence_number, packets_sent, wire>>]_vars
\* C11 witness: a session that quit from the race has sent its Disconnect
\* as its last packet and closed the socket.
C11_Witness ==
    /\ Simulate /\ pc = "exit" /\ ~running /\ in_race /\ sock = "closed"
    /\ ev.op = "cleanup" /\ ev.sent /\ wire = ev.built
    /\ TypeOf(wire) = MSG_DISCONNECT
    /\ Plus1(SeqOf(wire)) = sequence_number

\* the step just taken read a datagram of another participant
FromOther(e) ==
    e.rx = "data" /\ Len(e.data) >= 8 /\ HeaderOf(e.data).player_id # player_id
\* C12: a step of the session that reads a datagram, whatever its sender,
\* type and length, leaves in_race, is_ready, running, sequence_number, the
\* car, packets_sent, the last datagram sent, the timers and the socket as
\* they are and builds nothing; a datagram of another participant adds one
\* to packets_received and that is all it changes.
C12_ReceiveFrame ==
    [][(Simulate /\ ev'.rx = "data") =>
        /\ UNCHANGED <<in_race, is_ready, running, sequence_number, packets_sent,
                       wire, lost, last_heartbeat, last_status_print,
                       last_car_update, sock, exc, now, player_id>>
        /\ UNCHANGED carVars
        /\ ev'.built = <<>> /\ ~ev'.sent
        /\ packets_received' = packets_received + (IF FromOther(ev') THEN 1 ELSE 0)]_vars
\* C12 witness: a racing session has read a Ready and then a Disconnect of
\* another participant and is still racing, not ready, its counter where
\* it was.
C12_Witness ==
    /\ Simulate /\ in_race /\ running /\ ~is_ready /\ pc = "race_input"
    /\ FromOther(ev) /\ TypeOf(ev.data) = MSG_DISCONNECT
    /\ packets_received = 2 /\ packets_sent = 0 /\ sequence_number = Big(0, 0)

\* C13: a LobbyUpdate or a Ready is built only by a step that starts and
\* ends with in_race false, a CarUpdate or an ItemPlaced only by a step
\* that starts and ends with in_race true, and a LobbyJoin only by a step
\* that ends with in_race false; so from start-race on no LobbyUpdate is
\* built and from return-to-lobby on no CarUpdate is, and return-to-lobby
\* leaves is_ready false.
C13_LegalByPhase ==
    [][Simulate =>
        /\ ev'.built # <<>> =>
              LET t == TypeOf(ev'.built)
              IN  /\ t \in {MSG_LOBBY_UPDATE, MSG_READY} => ~in_race /\ ~in_race'
                  /\ t \in {MSG_CAR_UPDATE, MSG_ITEM_PLACED} => in_race /\ in_race'
                  /\ t = MSG_LOBBY_JOIN => ~in_race'
                  /\ t # MSG_ITEM_BOX_PICKUP
        /\ StartRace => in_race'
        /\ ReturnToLobby => ~in_race' /\ ~is_ready']_vars
\* C13 witness: a session that raced, sent one CarUpdate and returned to
\* the lobby has just built a LobbyUpdate, not ready.
C13_Witness ==
    /\ Simulate /\ ev.op = "heartbeat" /\ BuiltNow
    /\ TypeOf(ev.built) = MSG_LOBBY_UPDATE
    /\ ~in_race /\ ~is_ready /\ angle = 5
    /\ sequence_number = Big(0, 4)

\* the positions of the lobby loop and of the race loop
LobbyPcs == {"lobby_heartbeat", "lobby_receive", "lobby_input", "lobby_sleep"}
RacePcs == {"race_update", "race_receive", "race_input", "race_sleep"}
\* packets built since the session was picked up
BuiltSince == sequence_number.lo
\* C14 as claimed: in the first ten seconds of a lobby stay (the stay of a
\* session picked up as it enters the lobby, after a race or not) no more
\* than 11 LobbyUpdate packets are built and handed to sendto, and when the
\* ten seconds are over at least 9 have been.  Of the packets built since
\* the entry the first is the LobbyJoin, the others are LobbyUpdates.
C14_LobbyCadence ==
    (Simulate /\ Veteran /\ ~in_race /\ pc \in LobbyPcs /\ now <= 10 * HEARTBEAT_PERIOD) =>
        /\ BuiltSince - 1 <= 11
        /\ now = 10 * HEARTBEAT_PERIOD => BuiltSince - 1 >= 9

\* one second of the mocked clock, fifteen send intervals
OneSecond == 15 * update_rate
\* C15 as claimed: with no datagram pending, so that every receive poll
\* blocks for RECV_TIMEOUT and every iteration sleeps RACE_SLEEP, the
\* session that entered the race loop one second ago has built between 14
\* and 16 CarUpdates (looked at on the first turn of the loop at or after
\* the second); and whenever the loop looks at its timer, the CarUpdate is
\* overdue by no more than the receive timeout.
C15_RaceCadence ==
    /\ (/\ Simulate /\ Veteran /\ in_race /\ pc = "race_update"
        /\ now >= OneSecond /\ now - (RECV_TIMEOUT + RACE_SLEEP) < OneSecond)
            => BuiltSince \in 14..16
    /\ (Simulate /\ in_race /\ pc = "race_update")
            => now - last_car_update <= update_rate + RECV_TIMEOUT

\* C16 as claimed: a step of the session that builds a packet other than
\* the Disconnect and whose sendto fails raises nothing: the session is
\* still running, no exception is pending and control stays in the loop of
\* the phase, at the statement after the send.
C16_FailedSendNotFatal ==
    [][(/\ Simulate /\ ev'.built # <<>> /\ ~ev'.sent
        /\ TypeOf(ev'.built) # MSG_DISCONNECT)
        => /\ exc' = "none" /\ running'
           /\ pc' \in LobbyPcs \cup RacePcs]_vars

\* C17: a step of the session that reads a datagram, of any length,
\* version, type and sender, raises nothing: no exception is pending after
\* it, the session is still running in the same phase and control is at
\* the statement after receive_packets(); the listener likewise stays in
\* its loop.  A header of another participant whose type is 7 or more gets
\* the name UNKNOWN, in the session and in the listener.
C17_ReceiveNeverFatal ==
    [][ev'.rx = "data" =>
        /\ exc' = exc /\ exc' = "none"
        /\ running' = running /\ in_race' = in_race /\ sock' = sock
        /\ Simulate => pc' = (IF in_race THEN "race_input" ELSE "lobby_input")
        /\ ~Simulate => pc' = "listen"
        /\ (Len(ev'.data) >= 8 /\ TypeOf(ev'.data) >= 7
                /\ (Simulate => FromOther(ev')))
              => ev'.tag = "UNKNOWN"]_vars
\* C17 witness: a racing session has read an empty datagram and then one
\* of type 255 and goes on racing.
C17_Witness ==
    /\ Simulate /\ in_race /\ running /\ exc = "none" /\ pc = "race_input"
    /\ ev.rx = "data" /\ Len(ev.data) = 40 /\ TypeOf(ev.data) = 255
    /\ ev.tag = "UNKNOWN"
    /\ inputs = 2 /\ packets_received = 1

\* the i-th int32 of the payload of a packet, as struct.unpack('<i') reads it
Field(p, i) == Unpack_i(SubSeq(p, 5 + 4 * i, 8 + 4 * i))
\* f is an integer nearest to x * 256, for a float x held in units of
\* 1/1024 (x * 256 is x / 4; a tie may go either way)
Nearest(f, x) == 4 * f - x <= 2 /\ x - 4 * f <= 2
\* the arguments of the build_* call the step just taken made
BuilderArgs ==
    IF prog = "verify_packet_size" THEN verify_calls[step - 1].a
    ELSE Script(pc)[step - 1].a
BuilderBuilt(m) == ~Simulate /\ ev.op = m /\ BuiltNow /\ pc # "traceback"
\* C18 as claimed: the three Q16.8 fields of every CarUpdate and the two
\* position fields and the speed field of every ItemPlaced hold the value
\* they were made from times 256, rounded to the nearest integer: the
\* position and speed of the car in the session, the arguments of the
\* call in the packet builder.
C18_RoundsToNearest ==
    /\ (Simulate /\ BuiltNow /\ TypeOf(ev.built) = MSG_CAR_UPDATE) =>
            /\ Nearest(Field(ev.built, 1), pos_x)
            /\ Nearest(Field(ev.built, 2), pos_y)
            /\ Nearest(Field(ev.built, 3), speed)
    /\ (Simulate /\ BuiltNow /\ TypeOf(ev.built) = MSG_ITEM_PLACED) =>
            /\ Nearest(Field(ev.built, 2), pos_x)
            /\ Nearest(Field(ev.built, 3), pos_y)
            /\ Nearest(Field(ev.built, 5), Float(10))
    /\ BuilderBuilt("build_car_update") =>
            /\ Nearest(Field(ev.built, 1), BuilderArgs[1])
            /\ Nearest(Field(ev.built, 2), BuilderArgs[2])
            /\ Nearest(Field(ev.built, 3), BuilderArgs[3])
    /\ BuilderBuilt("build_item_placed") =>
            /\ Nearest(Field(ev.built, 2), BuilderArgs[2])
            /\ Nearest(Field(ev.built, 3), BuilderArgs[3])
            /\ Nearest(Field(ev.built, 5), BuilderArgs[5])

\* the payload of a packet
Payload(p) == SubSeq(p, 9, Len(p))
\* a CarUpdate packet p lays out (x, y, v, a, l, it): 24 payload bytes, six
\* int32; a float that is a multiple of 1/256 comes back exactly when its
\* field is divided by 256 (a field times 4 is the float in units of
\* 1/1024), the integers are written as they are
LaysOut(p, x, y, v, a, l, it) ==
    /\ Len(Payload(p)) = 24
    /\ x % 4 = 0 => Field(p, 1) * 4 = x
    /\ y % 4 = 0 => Field(p, 2) * 4 = y
    /\ v % 4 = 0 => Field(p, 3) * 4 = v
    /\ Field(p, 4) = a /\ Field(p, 5) = l /\ Field(p, 6) = it
\* C19: every CarUpdate the packet builder and the session build lays out
\* its arguments, or the car, as six little-endian int32 in the order
\* posX * 256, posY * 256, speed * 256, angle, lap, item; the fourth packet
\* of verify_packet_size.py, built from (100.0, 200.0, 5.0, 256, 1, 0), has
\* the payload bytes of (25600, 51200, 1280, 256, 1, 0).
C19_CarUpdateLayout ==
    /\ (prog = "verify_packet_size" /\ Len(packets_to_test) >= 4) =>
            Payload(packets_to_test[4]) =
                <<0, 100, 0, 0,  0, 200, 0, 0,  0, 5, 0, 0,
                  0, 1, 0, 0,  1, 0, 0, 0,  0, 0, 0, 0>>
    /\ BuilderBuilt("build_car_update") =>
            /\ \A i \in 1..3 : BuilderArgs[i] % 4 = 0
            /\ LaysOut(ev.built, BuilderArgs[1], BuilderArgs[2], BuilderArgs[3],
                       BuilderArgs[4], BuilderArgs[5], BuilderArgs[6])
    /\ (Simulate /\ BuiltNow /\ TypeOf(ev.built) = MSG_CAR_UPDATE) =>
            LaysOut(ev.built, pos_x, pos_y, speed, angle, lap, item)
\* C19 witness: verify_packet_size.py has just built its CarUpdate from
\* (100.0, 200.0, 5.0, 256, 1, 0).
C19_Witness ==
    /\ prog = "verify_packet_size" /\ Len(packets_to_test) = 4
    /\ ev.op = "build_car_update" /\ ev.built = packets_to_test[4]
    /\ BuilderArgs = <<Float(100), Float(200), Float(5), 256, 1, 0>>
    /\ Field(ev.built, 1) = 25600 /\ Field(ev.built, 2) = 51200
    /\ Field(ev.built, 3) = 1280

\* C20 as claimed: a step that reads a datagram shorter than 8 bytes reads
\* no header field from it (no type name is computed), prints nothing for
\* it, counts it neither in packets_received of the session nor in
\* packet_count of the listener, and leaves the state of the session as
\* it is.
C20_ShortDatagramDropped ==
    [][(ev'.rx = "data" /\ Len(ev'.data) < 8) =>
        /\ ev'.tag = "" /\ ~ev'.shown
        /\ packets_received' = packets_received
        /\ packet_count' = packet_count
        /\ UNCHANGED <<in_race, is_ready, running, sequence_number, packets_sent,
                       wire, lost, last_heartbeat, last_car_update, sock, exc>>
        /\ UNCHANGED carVars]_vars

\* C21 as claimed: a step that reads a datagram with a whole header whose
\* protocol version is not PROTOCOL_VERSION counts it neither in
\* packets_received of the session nor in packet_count of the listener,
\* computes no name for it and prints nothing for it.
C21_VersionMismatchRejected ==
    [][(/\ ev'.rx = "data" /\ Len(ev'.data) >= 8
        /\ HeaderOf(ev'.data).version # PROTOCOL_VERSION)
        => /\ packets_received' = packets_received
           /\ packet_count' = packet_count
           /\ ev'.tag = "" /\ ~ev'.shown]_vars

\* bytes at offsets from..to of a packet (offset 0 is the first byte) are zero
ZeroAt(p, from, to) == \A i \in from..to : p[i + 1] = 0
\* a 32 byte packet has its reserved header byte and the pad region of its
\* message type zero
PadsZero(p) ==
    LET t == TypeOf(p)
    IN  /\ p[4] = 0
        /\ t \in {MSG_LOBBY_JOIN, MSG_LOBBY_UPDATE, MSG_READY} => ZeroAt(p, 9, 31)
        /\ t = MSG_ITEM_PLACED => ZeroAt(p, 28, 31)
        /\ t = MSG_ITEM_BOX_PICKUP => ZeroAt(p, 12, 31)
        /\ t = MSG_DISCONNECT => ZeroAt(p, 8, 31)
\* C22: in every packet the session and the packet builder build, byte 3
\* of the header is 0 and the pad region of the payload is zero: offsets
\* 9..31 of LobbyJoin, LobbyUpdate and Ready, 28..31 of ItemPlaced, 12..31
\* of ItemBoxPickup, 8..31 of Disconnect; the same for the last datagram
\* sent and for the packets of verify_packet_size.py.
C22_ReservedZero ==
    /\ BuiltNow => PadsZero(ev.built)
    /\ wire # <<>> => PadsZero(wire)
    /\ \A i \in 1..Len(packets_to_test) : PadsZero(packets_to_test[i])
\* C22 witness: test_item_usage has just built the ItemBoxPickup of box 3.
C22_Witness ==
    /\ prog = "test_multiplayer" /\ pc = "test_items"
    /\ ev.op = "build_item_box_pickup" /\ BuiltNow /\ wire = ev.built
    /\ TypeOf(ev.built) = MSG_ITEM_BOX_PICKUP /\ Field(ev.built, 1) = 3
    /\ ZeroAt(ev.built, 12, 31)

\* the participant ids of the protocol
ParticipantIds == 0..(MAX_MULTIPLAYER_PLAYERS - 1)
\* C23 as claimed: every packet built and every datagram sent, by the
\* session and by the test sequences, carries a participant id in 0..7,
\* the id the session or the builder was made with; a program launched
\* with --player-id outside 0..7 builds and sends nothing.
C23_ParticipantIdInRange ==
    /\ BuiltNow =>
            /\ HeaderOf(ev.built).player_id \in ParticipantIds
            /\ HeaderOf(ev.built).player_id = player_id
    /\ wire # <<>> =>
            /\ HeaderOf(wire).player_id \in ParticipantIds
            /\ HeaderOf(wire).player_id = player_id
    /\ args.player_id \notin ParticipantIds =>
            /\ ~BuiltNow /\ wire = <<>> /\ sequence_number = Big(0, 0)

\* a quit signal has been raised in a session: the quit command has
\* cleared the running flag, or Ctrl+C has raised KeyboardInterrupt
QuitRaised == Simulate /\ sock = "open" /\ (~running \/ exc = "KeyboardInterrupt")
\* C24: a session in which a quit signal has been raised eventually is in
\* its terminal state with the socket closed; on the way it builds nothing
\* but the Disconnect, which cleanup attempts, and a Disconnect whose
\* sendto fails still ends with the socket closed and the terminal state
\* reached in the same step.
C24_QuitTerminates ==
    /\ QuitRaised ~> (Terminal /\ sock = "closed")
    /\ [][QuitRaised =>
            /\ ev'.built # <<>> => pc = "cleanup" /\ TypeOf(ev'.built) = MSG_DISCONNECT
            /\ pc = "cleanup" =>
                  /\ ev'.built # <<>> /\ sock' = "closed" /\ Terminal'
                  /\ exc' = exc]_vars
\* C24 witness: a session interrupted in the race, whose Disconnect could
\* not be sent, has closed its socket and ended.
C24_Witness ==
    /\ Simulate /\ pc = "exit" /\ exc = "KeyboardInterrupt" /\ in_race
    /\ sock = "closed" /\ ev.op = "cleanup" /\ BuiltNow /\ ~ev.sent
    /\ TypeOf(ev.built) = MSG_DISCONNECT

\* the item commands of the race, as steps of the input handler
ItemTrigger == Simulate /\ pc = "race_input" /\ ev'.op = "input" /\ Lower(ev'.key) \in {"b", "g"}
\* f is x * 256 cut to an integer, for a float x >= 0 in units of 1/1024
Truncated(f, x) == 4 * f <= x /\ x < 4 * f + 4
\* C25: the step of the race loop that reads 'b' or 'g' builds exactly one
\* packet, in that step, whatever the CarUpdate timer says: an ItemPlaced
\* with the item chosen (banana for 'b', green shell for 'g'), the position
\* and the angle the car has at that moment and speed 10.0; the counter
\* goes up by one; the car, the clock, in_race, is_ready and the CarUpdate
\* timer stay as they are, so the next CarUpdate is due when it was; when
\* sendto takes the packet the loop goes on to its sleep.
C25_ItemPlacedImmediately ==
    [][ItemTrigger =>
        /\ ev'.built # <<>> /\ TypeOf(ev'.built) = MSG_ITEM_PLACED
        /\ Field(ev'.built, 1) = (IF Lower(ev'.key) = "b" THEN ITEM_BANANA
                                  ELSE ITEM_GREEN_SHELL)
        /\ Truncated(Field(ev'.built, 2), pos_x)
        /\ Truncated(Field(ev'.built, 3), pos_y)
        /\ Field(ev'.built, 4) = angle
        /\ Field(ev'.built, 5) = 10 * 256
        /\ sequence_number' = Plus1(sequence_number)
        /\ SeqOf(ev'.built) = sequence_number
        /\ UNCHANGED <<last_car_update, now, in_race, is_ready, running>>
        /\ UNCHANGED carVars
        /\ ev'.sent => /\ pc' = "race_sleep" /\ wire' = ev'.built
                       /\ packets_sent' = packets_sent + 1]_vars
\* C25 witness: after its first CarUpdate a racing session has thrown a
\* green shell, the CarUpdate timer still at the time of that CarUpdate.
C25_Witness ==
    /\ Simulate /\ in_race /\ pc = "race_sleep"
    /\ ev.op = "input" /\ ev.key = "G" /\ ev.sent
    /\ TypeOf(ev.built) = MSG_ITEM_PLACED /\ Field(ev.built, 1) = ITEM_GREEN_SHELL
    /\ angle = 5 /\ Field(ev.built, 4) = 5
    /\ last_car_update = RECV_TIMEOUT + RACE_SLEEP /\ now > last_car_update
    /\ sequence_number = Big(0, 2)

\* C26 as claimed: the LobbyUpdate builds of one lobby stay are at least
\* one heartbeat interval apart, whether their sends fail or not: a stay
\* that has built k LobbyUpdates has lasted at least k - 1 intervals, so a
\* failing network costs at most one sequence number per second.  (Of the
\* packets built since the session was picked up entering the lobby, the
\* first is the LobbyJoin and the others are LobbyUpdates.)
C26_RetryAtNextTick ==
    (Simulate /\ Veteran /\ ~in_race /\ pc \in LobbyPcs) =>
        (BuiltSince - 1 - 1) * HEARTBEAT_PERIOD <= now

\* the step just taken was a physics update followed by its CarUpdate
PhysicsUpdated == Simulate /\ ev.op = "car_update" /\ BuiltNow
C28_OneLobbyJoinPerEntry ==
    [][ (Simulate /\ ev'.built # <<>>) =>
          /\ TypeOf(ev'.built) = MSG_LOBBY_JOIN =>
                \/ ReturnToLobby /\ in_race /\ ~in_race'
                \/ sequence_number = Big(0, 0)
          /\ TypeOf(ev'.built) = MSG_LOBBY_UPDATE => sequence_number # Big(0, 0)
      ]_vars

\* sequence_number as a number
SeqValue == sequence_number.hi * 65536 + sequence_number.lo
\* C29: in every state of a session packets_sent <= sequence_number.  Both
\* start at 0; a send attempt that succeeds adds one to each, a send attempt
\* that fails adds one to sequence_number and leaves packets_sent as it is,
\* and no other step changes either: so the two are equal exactly when no
\* send attempt has failed.
C29_SentAtMostBuilt ==
    /\ [](Simulate => packets_sent <= SeqValue)
    /\ [](Simulate /\ lost > 0 => packets_sent < SeqValue)
    /\ (Simulate => packets_sent = 0 /\ SeqValue = 0)
    /\ [][ Simulate =>
             IF ev'.built # <<>>
             THEN /\ sequence_number' = Plus1(sequence_number)
                  /\ packets_sent' = IF ev'.sent THEN packets_sent + 1 ELSE packets_sent
             ELSE /\ ~ev'.sent
                  /\ UNCHANGED <<sequence_number, packets_sent>>
       ]_vars
\* C29 witness: a send has succeeded after another had failed, and the
\* session has sent fewer packets than it has built.
C29_Witness ==
    /\ Simulate /\ BuiltNow /\ ev.sent
    /\ 0 < packets_sent /\ packets_sent < SeqValue

\* the keys that are commands of the lobby and those of the race
LobbyCommands == {" ", "\n", "\r", "r", "q"}
RaceCommands == {"b", "g", "l", "q"}
\* a key is read by the input handler of a phase that has no command for it
OffPhaseKey ==
    /\ Simulate /\ ev'.op = "input" /\ ev'.key # ""
    /\ \/ pc = "lobby_input" /\ ev'.key \notin {" ", "\n", "\r"}
                              /\ Lower(ev'.key) \notin LobbyCommands
       \/ pc = "race_input" /\ Lower(ev'.key) \notin RaceCommands
\* C30: a key that is not a command of the current phase (drop banana, throw
\* shell, return-to-lobby in the lobby; toggle-ready, start-race in the race;
\* an unrecognized key in either) builds no packet and leaves in_race,
\* is_ready, sequence_number, running and packets_sent as they are; and
\* is_ready changes only by toggle-ready in the lobby or by the reset of
\* return-to-lobby.
C30_OffPhaseInputIsNoOp ==
    [][ /\ OffPhaseKey =>
              /\ ev'.built = <<>> /\ ~ev'.sent
              /\ UNCHANGED <<in_race, is_ready, sequence_number, running,
                             packets_sent, wire>>
        /\ (Simulate /\ is_ready' # is_ready) =>
              \/ ToggleReady /\ ~in_race
              \/ ReturnToLobby /\ in_race /\ is_ready /\ ~is_ready'
      ]_vars
\* C30 witness: a session that was made ready in the lobby and then taken to
\* the race has read a toggle-ready key there, and is still ready and racing.
C30_Witness ==
    /\ Simulate /\ pc = "race_sleep" /\ ev.op = "input" /\ ev.key \in {" ", "\n"}
    /\ in_race /\ is_ready /\ running /\ ev.built = <<>>

====
